---- MODULE Spec2Model ----
(***************************************************************************)
(* Order receiving and inventory reconciliation of mon-app-pieces.         *)
(*                                                                         *)
(* The store is the Supabase database (tables orders, order_items,         *)
(* receipts, receipt_items, inventory and the view order_overview_v).      *)
(* Each client is one browser session running the React component App:     *)
(* its useState cells are the client's variables, and each handler is an   *)
(* action.  createReceiptWithItems is a chain of awaited requests, so it   *)
(* is split at its awaits: pc[c] is the request the call of client c is    *)
(* about to send.  Every awaited request may answer with an error, which   *)
(* the handler throws into its catch block.                                *)
(***************************************************************************)
EXTENDS Integers, Sequences, FiniteSets, TLC

\* ---- bounds of the model ----
MaxOrders == 1
MaxItems == 2        \* order lines, one session
MaxSharedItems == 1  \* order lines, two sessions
MaxQty == 2
MaxReceipts == 2
MaxRefOrders == 2    \* orders, reference resolution
MaxPending == 2      \* rows ever inserted into pending_refs
MaxSupplierRefs == 2 \* rows ever inserted into supplier_part_refs

\* ---- finite domains ----
Clients == {"c1", "c2"}
Sites == {"A"}
Parts == {"p1"}
Suppliers == {"s1"}           \* suppliers, receiving
RefSuppliers == {"s1", "s2"}  \* suppliers, reference resolution
Conds == {"neuf", "rec"}
Locs == {"L1", "L2"}
NoLoc == "null"
NoPart == "null"
NoRef == ""
NoCall == [at |-> "none"]
NoId == 0
NoRow == [qty |-> -1, location |-> NoLoc]

Statuses == {"draft", "ordered", "partially_received", "received", "cancelled"}

VARIABLES
  orders,          \* table orders: id = index, [status, supplier_id, site]
  order_items,     \* table order_items: id = index, [id, order_id, part_id, qty]
  receipts,        \* table receipts: id = index, [order_id, site]
  receipt_items,   \* table receipt_items: set of rows
  inventory,       \* table inventory: <<site, part_id, condition>> -> [qty, location]
  activeOrderId,   \* useState activeOrderId, per client
  ordersView,      \* useState orders, per client (last loadOrders)
  orderItems,      \* useState orderItems, per client (last loadOrderItems)
  receivedByItem,  \* useState receivedByItem, per client
  inventoryView,   \* useState inventory, per client (last loadInventory): the
                   \* <<site, part_id, location>> of its rows that have a location
  receiveSite,     \* useState receiveSite, per client
  pc,              \* position of the client's createReceiptWithItems call
  overLine,        \* the running call notified "dépasse le restant" for a line
  entries,         \* local entries of the running call
  k,               \* index in entries of the line the loop is at
  receiptId,       \* local receiptId of the running call
  invRow,          \* local invRow of the running call (fallback read)
  pending_refs,        \* table pending_refs: id = index, [supplier_id, supplier_ref, live]
  supplier_part_refs,  \* table supplier_part_refs: id = index, [part_id, supplier_id, supplier_ref]
  newOrderSupplierId,  \* useState newOrderSupplierId, per client
  addCall,             \* locals of the client's running addOrderItem call (supplier
                       \* reference branch), NoCall when none runs
  toasts,              \* useToasts toasts, per client: the texts on display (only the
                       \* refused-quantity toast is kept)
  loading              \* per client, the orders whose loadOrderItems started from
                       \* onOpen has not answered yet

dbVars == <<orders, order_items, receipts, receipt_items, inventory>>
viewVars == <<activeOrderId, ordersView, orderItems, receivedByItem, inventoryView, receiveSite>>
callVars == <<pc, overLine, entries, k, receiptId, invRow>>
refVars == <<pending_refs, supplier_part_refs, newOrderSupplierId, addCall, toasts,
             loading>>
vars == <<orders, order_items, receipts, receipt_items, inventory,
          activeOrderId, ordersView, orderItems, receivedByItem, inventoryView,
          receiveSite, pc, overLine, entries, k, receiptId, invRow,
          pending_refs, supplier_part_refs, newOrderSupplierId, addCall, toasts,
          loading>>

\* ---- helpers ----
Max(a, b) == IF a >= b THEN a ELSE b

RECURSIVE SumQty(_)
SumQty(S) ==
  IF S = {} THEN 0
  ELSE LET r == CHOOSE x \in S : TRUE IN r.qty_received + SumQty(S \ {r})

RECURSIVE SumSeqQty(_)
SumSeqQty(s) == IF s = <<>> THEN 0 ELSE Head(s).qty + SumSeqQty(Tail(s))

ItemIds == 1..MaxItems

\* profile.site of each session
mySite == [c \in Clients |-> IF c = "c1" THEN "A" ELSE ""]

\* rows of the table tbl (order_items) of one order, ordered by id
ItemsIn(tbl, orderId) == SelectSeq(tbl, LAMBDA r : r.order_id = orderId)
ItemsOfOrder(orderId) == ItemsIn(order_items, orderId)

\* quantity already received on one order line, from the rows ris (receipt_items)
ReceivedIn(ris, itemId) == SumQty({ri \in ris : ri.order_item_id = itemId})
ReceivedOf(itemId) == ReceivedIn(receipt_items, itemId)

\* loadOrderItems: the aggregation it stores in receivedByItem
LoadedAgg(items, ris) ==
  [i \in ItemIds |->
     IF \E n \in 1..Len(items) : items[n].id = i THEN ReceivedIn(ris, i) ELSE 0]

\* order_overview_v
qty_ordered(orderId) == SumSeqQty(ItemsOfOrder(orderId))
qty_received(orderId) ==
  SumQty({ri \in receipt_items :
            \E n \in 1..Len(order_items) :
               n = ri.order_item_id /\ order_items[n].order_id = orderId})

\* the activeOrder memo
activeOrderStatus(c) ==
  IF activeOrderId[c] \in 1..Len(ordersView[c])
  THEN ordersView[c][activeOrderId[c]].status ELSE "none"
activeOrderSite(c) ==
  IF activeOrderId[c] \in 1..Len(ordersView[c])
  THEN ordersView[c][activeOrderId[c]].site ELSE ""

\* the knownLocationBySitePart memo: the first row of the loaded inventory
\* that has a location wins, and the rows come in no specified order
KnownLocs(c, site, part) ==
  {x[3] : x \in {y \in inventoryView[c] : y[1] = site /\ y[2] = part}}

\* what loadInventory keeps of the table inv for that memo
LocatedRows(inv) ==
  {<<key[1], key[2], inv[key].location>> :
     key \in {x \in DOMAIN inv : inv[x].location # NoLoc}}

\* texts of the quantity field (input type number) and their values
QtyTexts == {"", "x", "-1", "0", "1", "2"}
NaN == [nan |-> TRUE, v |-> 0]
Num(n) == [nan |-> FALSE, v |-> n]

\* Number(text)
Number(text) ==
  CASE text = "" -> Num(0)
    [] text = "-1" -> Num(-1)
    [] text = "0" -> Num(0)
    [] text = "1" -> Num(1)
    [] text = "2" -> Num(2)
    [] OTHER -> NaN

\* parseInt(text, 10)
parseInt(text) == IF text = "" THEN NaN ELSE Number(text)

\* !q || q <= 0
QtyRefused(q) == q.nan \/ q.v = 0 \/ q.v <= 0

\* a test that lets the quantity 0 through
QtyInvalidLax(qtyNumber) == qtyNumber.nan \/ qtyNumber.v < 0

\* !Number.isFinite(qtyNumber) || qtyNumber <= 0
QtyInvalid(qtyNumber) == qtyNumber.nan \/ qtyNumber.v <= 0

\* the difference, without Math.max
remainingForRaw(c, item) == item.qty - receivedByItem[c][item.id]

remainingFor(c, item) == Max(item.qty - receivedByItem[c][item.id], 0)

Init ==
  /\ orders = <<>>
  /\ order_items = <<>>
  /\ receipts = <<>>
  /\ receipt_items = {}
  /\ inventory = <<>>
  /\ activeOrderId = [c \in Clients |-> NoId]
  /\ ordersView = [c \in Clients |-> <<>>]
  /\ orderItems = [c \in Clients |-> <<>>]
  /\ receivedByItem = [c \in Clients |-> [i \in ItemIds |-> 0]]
  /\ inventoryView = [c \in Clients |-> {}]
  /\ receiveSite = [c \in Clients |-> ""]
  /\ pc = [c \in Clients |-> "idle"]
  /\ overLine = [c \in Clients |-> FALSE]
  /\ entries = [c \in Clients |-> <<>>]
  /\ k = [c \in Clients |-> 0]
  /\ receiptId = [c \in Clients |-> NoId]
  /\ invRow = [c \in Clients |-> NoRow]
  /\ pending_refs = <<>>
  /\ supplier_part_refs = <<>>
  /\ newOrderSupplierId = [c \in Clients |-> ""]
  /\ addCall = [c \in Clients |-> NoCall]
  /\ toasts = [c \in Clients |-> {}]
  /\ loading = [c \in Clients |-> {}]

\* ---- handlers that run as one step ----

\* the two setters of loadOrderItems(orderId)
LoadOrderItems(c, orderId) ==
  /\ orderItems' = [orderItems EXCEPT ![c] = ItemsIn(order_items', orderId)]
  /\ receivedByItem' = [receivedByItem EXCEPT ![c] =
                         LoadedAgg(ItemsIn(order_items', orderId), receipt_items')]

\* session start: loadOrders and loadInventory
loadSession(c) ==
  /\ pc[c] = "idle"
  /\ ordersView' = [ordersView EXCEPT ![c] = orders]
  /\ inventoryView' = [inventoryView EXCEPT ![c] = LocatedRows(inventory)]
  /\ UNCHANGED <<dbVars, activeOrderId, orderItems, receivedByItem, receiveSite,
                 callVars>>
  /\ UNCHANGED refVars

createOrderUpTo(c, cap, sups) ==
  /\ pc[c] = "idle"
  /\ Len(orders) < cap
  /\ \E sup \in (IF newOrderSupplierId[c] # "" THEN {newOrderSupplierId[c]}
                 ELSE sups),
        newOrderSite \in Sites :
       LET siteToUse == IF mySite[c] # "" THEN mySite[c] ELSE newOrderSite
           id == Len(orders) + 1
       IN /\ orders' = Append(orders, [status |-> "draft", supplier_id |-> sup,
                                       site |-> siteToUse])
          /\ ordersView' = [ordersView EXCEPT ![c] = orders']
          /\ activeOrderId' = [activeOrderId EXCEPT ![c] = id]
          /\ receiveSite' = [receiveSite EXCEPT ![c] = siteToUse]
          /\ UNCHANGED <<order_items, receipts, receipt_items, inventory>>
          /\ LoadOrderItems(c, id)
  /\ newOrderSupplierId' = [newOrderSupplierId EXCEPT ![c] = ""]
  /\ UNCHANGED <<inventoryView, callVars, toasts, loading, pending_refs, supplier_part_refs, addCall>>

createOrder(c) == createOrderUpTo(c, MaxOrders, Suppliers)

\* onOpen of OrdersLists
openOrder(c) ==
  /\ pc[c] = "idle"
  /\ \E id \in 1..Len(ordersView[c]) :
       /\ activeOrderId' = [activeOrderId EXCEPT ![c] = id]
       /\ receiveSite' = [receiveSite EXCEPT ![c] =
            IF ordersView[c][id].site # "" THEN ordersView[c][id].site ELSE mySite[c]]
       /\ UNCHANGED dbVars
       /\ LoadOrderItems(c, id)
  /\ UNCHANGED <<ordersView, inventoryView, callVars>>
  /\ UNCHANGED refVars

\* onOpen of OrdersLists, up to its await: loadOrderItems(id) is started
onOpen(c) ==
  /\ pc[c] = "idle"
  /\ \E id \in 1..Len(ordersView[c]) :
       /\ id \notin loading[c]
       /\ activeOrderId' = [activeOrderId EXCEPT ![c] = id]
       /\ receiveSite' = [receiveSite EXCEPT ![c] =
            IF ordersView[c][id].site # "" THEN ordersView[c][id].site ELSE mySite[c]]
       /\ loading' = [loading EXCEPT ![c] = @ \cup {id}]
  /\ UNCHANGED <<dbVars, ordersView, orderItems, receivedByItem, inventoryView,
                 callVars, pending_refs, supplier_part_refs, newOrderSupplierId,
                 addCall, toasts>>

\* a loadOrderItems started by onOpen answers: its setters run, whatever order
\* is active by now
loadOrderItemsDone(c) ==
  /\ UNCHANGED dbVars
  /\ \E id \in loading[c] :
       /\ LoadOrderItems(c, id)
       /\ loading' = [loading EXCEPT ![c] = @ \ {id}]
  /\ UNCHANGED <<activeOrderId, ordersView, inventoryView, receiveSite,
                 callVars, pending_refs, supplier_part_refs, newOrderSupplierId,
                 addCall, toasts>>

\* the add-line form is rendered only when activeOrder.status is draft
addOrderItem(c, cap) ==
  /\ pc[c] = "idle"
  /\ activeOrderId[c] # NoId
  /\ activeOrderStatus(c) = "draft"
  /\ Len(order_items) < cap
  /\ \E oiPartId \in Parts, oiQty \in QtyTexts :
       LET q == parseInt(IF oiQty = "" THEN "0" ELSE oiQty)
       IN /\ ~QtyRefused(q)
          /\ order_items' = Append(order_items,
               [id |-> Len(order_items) + 1, order_id |-> activeOrderId[c],
                part_id |-> oiPartId, supplier_ref |-> NoRef, qty |-> q.v])
  /\ UNCHANGED <<orders, receipts, receipt_items, inventory>>
  /\ LoadOrderItems(c, activeOrderId[c])
  /\ ordersView' = [ordersView EXCEPT ![c] = orders]
  /\ UNCHANGED <<activeOrderId, inventoryView, receiveSite, callVars>>
  /\ UNCHANGED refVars

\* the button is rendered only when activeOrder.status is draft
markOrderAsOrdered(c) ==
  /\ pc[c] = "idle"
  /\ activeOrderId[c] # NoId
  /\ activeOrderStatus(c) = "draft"
  /\ Len(ItemsOfOrder(activeOrderId[c])) > 0
  /\ orders' = [orders EXCEPT ![activeOrderId[c]].status = "ordered"]
  /\ ordersView' = [ordersView EXCEPT ![c] = orders']
  /\ UNCHANGED <<order_items, receipts, receipt_items, inventory>>
  /\ LoadOrderItems(c, activeOrderId[c])
  /\ UNCHANGED <<activeOrderId, inventoryView, receiveSite, callVars>>
  /\ UNCHANGED refVars

\* the button of the orders list, rendered for the orders shown as draft
setOrderStatus(c) ==
  /\ pc[c] = "idle"
  /\ \E orderId \in 1..Len(ordersView[c]) :
       /\ ordersView[c][orderId].status = "draft"
       /\ orders' = [orders EXCEPT ![orderId].status = "ordered"]
  /\ ordersView' = [ordersView EXCEPT ![c] = orders']
  /\ UNCHANGED <<order_items, receipts, receipt_items, inventory, activeOrderId,
                 orderItems, receivedByItem, inventoryView, receiveSite, callVars>>
  /\ UNCHANGED refVars


\* texts of the receive-site field: the names of the sites table and a name
\* that is not in it
SiteTexts == Sites \cup {"Atelier Z"}

\* onChange of the receive-site input, rendered when the session has no site
setReceiveSite(c) ==
  /\ pc[c] = "idle"
  /\ mySite[c] = ""
  /\ activeOrderId[c] # NoId
  /\ \E text \in SiteTexts \ {receiveSite[c]} :
       receiveSite' = [receiveSite EXCEPT ![c] = text]
  /\ UNCHANGED <<dbVars, activeOrderId, ordersView, orderItems, receivedByItem,
                 inventoryView, callVars>>
  /\ UNCHANGED refVars

\* ---- createReceiptWithItems, one step per awaited request ----

siteUse(c) ==
  IF mySite[c] # "" THEN mySite[c]
  ELSE IF receiveSite[c] # "" THEN receiveSite[c] ELSE activeOrderSite(c)

\* values of order_items.part_id
PartKeys == Parts \cup {NoPart}

\* calls that still have to insert their receipt
Starting == {c \in Clients : pc[c] = "receipt"}

\* the test of one line in the map over orderItems
LineKept(qty, rest) == qty > 0 /\ qty <= rest

\* the lines kept by the map/filter over orderItems
KeptItems(c, tr) ==
  SelectSeq(orderItems[c], LAMBDA oi : LineKept(tr[oi.id], remainingFor(c, oi)))

BuildEntries(c, tr, cd, known, typed) ==
  LET kept == KeptItems(c, tr)
  IN [n \in 1..Len(kept) |->
        [oi |-> kept[n],
         qty |-> tr[kept[n].id],
         cond |-> cd[kept[n].id],
         location |-> IF known[kept[n].part_id] # NoLoc THEN known[kept[n].part_id]
                      ELSE typed[kept[n].part_id]]]

\* finally { setReceiving(false) }: the call is over
IdleCall(c) ==
  /\ pc' = [pc EXCEPT ![c] = "idle"]
  /\ overLine' = [overLine EXCEPT ![c] = FALSE]
  /\ entries' = [entries EXCEPT ![c] = <<>>]
  /\ k' = [k EXCEPT ![c] = 0]
  /\ receiptId' = [receiptId EXCEPT ![c] = NoId]
  /\ invRow' = [invRow EXCEPT ![c] = NoRow]

\* catch (e) { notify(...) }: nothing is undone
Catch(c) ==
  /\ IdleCall(c)
  /\ UNCHANGED <<dbVars, viewVars>>
  /\ UNCHANGED refVars

\* the synchronous part, up to the first await
startReceipt(c) ==
  /\ pc[c] = "idle"
  /\ activeOrderId[c] # NoId
  /\ siteUse(c) # ""
  /\ Len(receipts) + Cardinality(Starting) < MaxReceipts
  /\ \E tr \in [ItemIds -> 0..MaxQty], cd \in [ItemIds -> Conds],
        typed \in [PartKeys -> Locs \cup {NoLoc}],
        known \in [PartKeys -> Locs \cup {NoLoc}] :
       /\ \A i \in ItemIds :
            (\A n \in 1..Len(orderItems[c]) : orderItems[c][n].id # i \/ tr[i] = 0)
              => (tr[i] = 0 /\ cd[i] = "neuf")
       /\ \A p \in PartKeys :
            /\ known[p] \in (IF KnownLocs(c, siteUse(c), p) = {} THEN {NoLoc}
                             ELSE KnownLocs(c, siteUse(c), p))
            /\ (known[p] # NoLoc => typed[p] = NoLoc)
            /\ (\A n \in 1..Len(orderItems[c]) : orderItems[c][n].part_id # p)
                 => typed[p] = NoLoc
       /\ Len(BuildEntries(c, tr, cd, known, typed)) > 0
       /\ entries' = [entries EXCEPT ![c] = BuildEntries(c, tr, cd, known, typed)]
       /\ overLine' = [overLine EXCEPT ![c] =
            \E n \in 1..Len(orderItems[c]) :
               tr[orderItems[c][n].id] > remainingFor(c, orderItems[c][n])]
  /\ pc' = [pc EXCEPT ![c] = "receipt"]
  /\ k' = [k EXCEPT ![c] = 1]
  /\ UNCHANGED <<dbVars, viewVars, receiptId, invRow>>
  /\ UNCHANGED refVars

\* 1) insert into receipts
insertReceipt(c) ==
  /\ pc[c] = "receipt"
  /\ receipts' = Append(receipts, [order_id |-> activeOrderId[c], site |-> siteUse(c)])
  /\ receiptId' = [receiptId EXCEPT ![c] = Len(receipts) + 1]
  /\ pc' = [pc EXCEPT ![c] = "ri"]
  /\ UNCHANGED <<orders, order_items, receipt_items, inventory, viewVars,
                 overLine, entries, k, invRow>>
  /\ UNCHANGED refVars

insertReceiptErr(c) ==
  /\ pc[c] = "receipt"
  /\ Catch(c)

entry(c) == entries[c][k[c]]
invKey(c) == <<siteUse(c), entry(c).oi.part_id, entry(c).cond>>

ReceiptItemRow(c) ==
  [receipt_id |-> receiptId[c], order_item_id |-> entry(c).oi.id,
   qty_received |-> entry(c).qty, condition |-> entry(c).cond,
   location |-> entry(c).location]

\* (a) insert into receipt_items, then (b) insert into stock_moves (a table
\* that nothing reads)
insertReceiptItem(c) ==
  /\ pc[c] = "ri"
  /\ receipt_items' = receipt_items \cup {ReceiptItemRow(c)}
  /\ pc' = [pc EXCEPT ![c] = "inv"]
  /\ UNCHANGED <<orders, order_items, receipts, inventory, viewVars,
                 overLine, entries, k, receiptId, invRow>>
  /\ UNCHANGED refVars

\* (a) answers with an error
insertReceiptItemErr(c) ==
  /\ pc[c] = "ri"
  /\ Catch(c)

\* (a) is stored and (b) answers with an error
insertStockMoveErr(c) ==
  /\ pc[c] = "ri"
  /\ receipt_items' = receipt_items \cup {ReceiptItemRow(c)}
  /\ IdleCall(c)
  /\ UNCHANGED <<orders, order_items, receipts, inventory, viewVars>>
  /\ UNCHANGED refVars

\* end of one pass of the for loop
NextEntry(c) ==
  /\ pc' = [pc EXCEPT ![c] = IF k[c] < Len(entries[c]) THEN "ri" ELSE "reload"]
  /\ k' = [k EXCEPT ![c] = IF k[c] < Len(entries[c]) THEN k[c] + 1 ELSE k[c]]

\* the row an accepted upsert leaves: the row sent (merge-duplicates)
UpsertRow(old, qty, location) == [qty |-> qty, location |-> location]

\* (c) upsert into inventory on conflict (site, part_id, condition)
upsertInventory(c) ==
  /\ pc[c] = "inv"
  /\ inventory' =
       LET old == IF invKey(c) \in DOMAIN inventory THEN inventory[invKey(c)]
                  ELSE NoRow
       IN (invKey(c) :> UpsertRow(old, entry(c).qty, entry(c).location)) @@ inventory
  /\ NextEntry(c)
  /\ UNCHANGED <<orders, order_items, receipts, receipt_items, viewVars,
                 overLine, entries, receiptId, invRow>>
  /\ UNCHANGED refVars

\* the store refuses the upsert: the handler goes to its fallback
upsertInventoryErr(c) ==
  /\ pc[c] = "inv"
  /\ pc' = [pc EXCEPT ![c] = "invGet"]
  /\ UNCHANGED <<dbVars, viewVars, overLine, entries, k, receiptId, invRow>>
  /\ UNCHANGED refVars

\* fallback: select qty, location of the row
selectInventory(c) ==
  /\ pc[c] = "invGet"
  /\ invRow' = [invRow EXCEPT ![c] =
       IF invKey(c) \in DOMAIN inventory THEN inventory[invKey(c)] ELSE NoRow]
  /\ pc' = [pc EXCEPT ![c] = "invPut"]
  /\ UNCHANGED <<dbVars, viewVars, overLine, entries, k, receiptId>>
  /\ UNCHANGED refVars

selectInventoryErr(c) ==
  /\ pc[c] = "invGet"
  /\ Catch(c)

\* the row the fallback update writes
FallbackRow(row, qty, location) ==
  [qty |-> row.qty + qty,
   location |-> IF row.location # NoLoc THEN row.location ELSE location]

\* fallback: update of the row read, or insert when none was read
writeInventory(c) ==
  /\ pc[c] = "invPut"
  /\ IF invRow[c] # NoRow
     THEN inventory' = [inventory EXCEPT ![invKey(c)] =
                          FallbackRow(invRow[c], entry(c).qty, entry(c).location)]
     ELSE /\ invKey(c) \notin DOMAIN inventory
          /\ inventory' = (invKey(c) :> [qty |-> entry(c).qty,
                                         location |-> entry(c).location])
                            @@ inventory
  /\ NextEntry(c)
  /\ invRow' = [invRow EXCEPT ![c] = NoRow]
  /\ UNCHANGED <<orders, order_items, receipts, receipt_items, viewVars,
                 overLine, entries, receiptId>>
  /\ UNCHANGED refVars

\* the insert meets a row created since the read (unique key of the table)
writeInventoryConflict(c) ==
  /\ pc[c] = "invPut"
  /\ invRow[c] = NoRow
  /\ invKey(c) \in DOMAIN inventory
  /\ Catch(c)

writeInventoryErr(c) ==
  /\ pc[c] = "invPut"
  /\ Catch(c)

\* 3) Promise.all([loadOrderItems, loadOrders, loadInventory])
reloadAll(c) ==
  /\ pc[c] = "reload"
  /\ UNCHANGED dbVars
  /\ LoadOrderItems(c, activeOrderId[c])
  /\ ordersView' = [ordersView EXCEPT ![c] = orders]
  /\ inventoryView' = [inventoryView EXCEPT ![c] = LocatedRows(inventory)]
  /\ pc' = [pc EXCEPT ![c] = "status"]
  /\ UNCHANGED <<activeOrderId, receiveSite, overLine, entries, k, receiptId, invRow>>
  /\ UNCHANGED refVars

\* the test of maybeMarkOrderPartial on the row of order_overview_v
IsPartial(qTot, qRec, status) ==
  qTot > 0 /\ qRec > 0 /\ qRec < qTot /\ status # "partially_received"

\* the test of maybeMarkOrderReceived
IsAllReceived(qTot, qRec, status) ==
  qTot > 0 /\ qRec >= qTot /\ status # "received"

\* the status maybeMarkOrderPartial leaves; readOk: its select answered
AfterPartial(o, status, readOk) ==
  IF readOk /\ IsPartial(qty_ordered(o), qty_received(o), status)
  THEN "partially_received" ELSE status

\* the status maybeMarkOrderReceived leaves
AfterReceived(o, status, readOk) ==
  IF readOk /\ IsAllReceived(qty_ordered(o), qty_received(o), status)
  THEN "received" ELSE status

\* 4) maybeMarkOrderPartial then maybeMarkOrderReceived, 5) the form reset
MarkStatus(c, okPartial, okReceived) ==
  /\ pc[c] = "status"
  /\ LET o == activeOrderId[c]
         s1 == AfterPartial(o, orders[o].status, okPartial)
         s2 == AfterReceived(o, s1, okReceived)
     IN /\ orders' = [orders EXCEPT ![o].status = s2]
        /\ ordersView' = [ordersView EXCEPT ![c] =
             IF s2 # orders[o].status THEN orders' ELSE ordersView[c]]
  /\ IdleCall(c)
  /\ UNCHANGED <<order_items, receipts, receipt_items, inventory, activeOrderId,
                 orderItems, receivedByItem, inventoryView, receiveSite>>
  /\ UNCHANGED refVars

updateStatus(c) == MarkStatus(c, TRUE, TRUE)

\* a select on order_overview_v answers with an error: the function returns
updateStatusErr(c) ==
  \E okPartial, okReceived \in BOOLEAN :
    /\ ~(okPartial /\ okReceived)
    /\ MarkStatus(c, okPartial, okReceived)

\* updateInventoryLocation(row, newLoc) on a row of the inventory tab, then
\* loadInventory
updateInventoryLocation(c) ==
  /\ pc[c] = "idle"
  /\ \E key \in DOMAIN inventory, newLoc \in Locs \cup {NoLoc} :
       /\ newLoc # inventory[key].location
       /\ inventory' = [inventory EXCEPT ![key].location = newLoc]
  /\ inventoryView' = [inventoryView EXCEPT ![c] = LocatedRows(inventory')]
  /\ UNCHANGED <<orders, order_items, receipts, receipt_items, activeOrderId,
                 ordersView, orderItems, receivedByItem, receiveSite, callVars>>
  /\ UNCHANGED refVars

\* ---- supplier references: addOrderItem with a supplier reference, and the
\* ---- "À référencer" queue

\* texts of the supplier reference field
RefTexts == {"", "r1", "r1 "}

\* text.trim()
Trim(text) == IF text = "r1 " THEN "r1" ELSE text

\* calls of addOrderItem that still have to insert their line
Adding == {c \in Clients : addCall[c] # NoCall}

\* the select of the new-order form
selectSupplier(c) ==
  /\ pc[c] = "idle"
  /\ \E sup \in RefSuppliers \ {newOrderSupplierId[c]} :
       newOrderSupplierId' = [newOrderSupplierId EXCEPT ![c] = sup]
  /\ UNCHANGED <<dbVars, viewVars, callVars, toasts, loading, pending_refs, supplier_part_refs, addCall>>

\* the text of the toast of a refused quantity
QtyToast == "La quantite doit etre > 0"

\* addOrderItem, the quantity is refused: the toast is raised and the function
\* returns before any request
addOrderItemRefused(c) ==
  /\ pc[c] = "idle"
  /\ addCall[c] = NoCall
  /\ activeOrderId[c] # NoId
  /\ activeOrderStatus(c) = "draft"
  /\ QtyToast \notin toasts[c]
  /\ \E oiQty \in QtyTexts : QtyInvalid(Number(oiQty))
  /\ toasts' = [toasts EXCEPT ![c] = @ \cup {QtyToast}]
  /\ UNCHANGED <<dbVars, viewVars, callVars, pending_refs, supplier_part_refs,
                 newOrderSupplierId, addCall, loading>>

\* dismiss(id), 3.5 s after the toast was raised
dismiss(c) ==
  /\ toasts[c] # {}
  /\ toasts' = [toasts EXCEPT ![c] = {}]
  /\ UNCHANGED <<dbVars, viewVars, callVars, pending_refs, supplier_part_refs,
                 newOrderSupplierId, addCall, loading>>

\* addOrderItem, a part is chosen: the line is inserted with that part
addOrderItemWithPart(c, cap) ==
  /\ pc[c] = "idle"
  /\ addCall[c] = NoCall
  /\ activeOrderId[c] # NoId
  /\ activeOrderStatus(c) = "draft"
  /\ Len(order_items) + Cardinality(Adding) < cap
  /\ \E oiPartId \in Parts, oiSupplierRef \in RefTexts, oiQty \in QtyTexts :
       LET qtyNumber == Number(oiQty)
       IN /\ ~QtyInvalid(qtyNumber)
          /\ order_items' = Append(order_items,
               [id |-> Len(order_items) + 1, order_id |-> activeOrderId[c],
                part_id |-> oiPartId, supplier_ref |-> oiSupplierRef,
                qty |-> qtyNumber.v])
  /\ UNCHANGED <<orders, receipts, receipt_items, inventory>>
  /\ LoadOrderItems(c, activeOrderId[c])
  /\ UNCHANGED <<activeOrderId, ordersView, inventoryView, receiveSite, callVars,
                 refVars>>

\* rows of supplier_part_refs of one supplier and reference
RefsFound(sup, ref) ==
  {n \in 1..Len(supplier_part_refs) :
     /\ supplier_part_refs[n].supplier_id = sup
     /\ supplier_part_refs[n].supplier_ref = ref}

\* addOrderItem, no part chosen and a reference typed: up to the answer of
\* the select on supplier_part_refs (maybeSingle: at most one row)
findSupplierRef(c, cap) ==
  /\ pc[c] = "idle"
  /\ addCall[c] = NoCall
  /\ activeOrderId[c] # NoId
  /\ activeOrderStatus(c) = "draft"
  /\ Len(order_items) + Cardinality(Adding) < cap
  /\ newOrderSupplierId[c] # ""
  /\ \E oiSupplierRef \in RefTexts, oiQty \in QtyTexts :
       LET qtyNumber == Number(oiQty)
           found == RefsFound(newOrderSupplierId[c], Trim(oiSupplierRef))
       IN /\ ~QtyInvalid(qtyNumber)
          /\ Trim(oiSupplierRef) # ""
          /\ Cardinality(found) <= 1
          /\ addCall' = [addCall EXCEPT ![c] =
               [at |-> IF found = {} THEN "pending" ELSE "insert",
                order_id |-> activeOrderId[c],
                sup |-> newOrderSupplierId[c],
                ref |-> oiSupplierRef,
                qty |-> qtyNumber.v,
                part |-> IF found = {} THEN NoPart
                         ELSE supplier_part_refs[CHOOSE n \in found : TRUE].part_id]]
  /\ UNCHANGED <<dbVars, viewVars, callVars, toasts, loading, pending_refs, supplier_part_refs,
                 newOrderSupplierId>>

\* createPendingRef(newOrderSupplierId, oiSupplierRef)
createPendingRef(c) ==
  /\ addCall[c].at = "pending"
  /\ Len(pending_refs) < MaxPending
  /\ pending_refs' = Append(pending_refs,
       [supplier_id |-> addCall[c].sup, supplier_ref |-> Trim(addCall[c].ref),
        live |-> TRUE])
  /\ addCall' = [addCall EXCEPT ![c].at = "orphan"]
  /\ UNCHANGED <<dbVars, viewVars, callVars, toasts, loading, supplier_part_refs, newOrderSupplierId>>

\* the insert into pending_refs answers with an error: it is notified and
\* addOrderItem goes on
createPendingRefErr(c) ==
  /\ addCall[c].at = "pending"
  /\ addCall' = [addCall EXCEPT ![c].at = "orphan"]
  /\ UNCHANGED <<dbVars, viewVars, callVars, toasts, loading, pending_refs, supplier_part_refs,
                 newOrderSupplierId>>

\* the line of the running call, with the part it resolved to
CallItem(c, partId) ==
  [id |-> Len(order_items) + 1, order_id |-> addCall[c].order_id,
   part_id |-> partId, supplier_ref |-> addCall[c].ref, qty |-> addCall[c].qty]

\* the insert of the line, then loadOrderItems(activeOrderId)
InsertCallItem(c, partId) ==
  /\ order_items' = Append(order_items, CallItem(c, partId))
  /\ addCall' = [addCall EXCEPT ![c] = NoCall]
  /\ UNCHANGED <<orders, receipts, receipt_items, inventory>>
  /\ LoadOrderItems(c, addCall[c].order_id)
  /\ UNCHANGED <<activeOrderId, ordersView, inventoryView, receiveSite, callVars, toasts, loading,
                 pending_refs, supplier_part_refs, newOrderSupplierId>>

\* unknown reference: the line is inserted with part_id null
insertOrphanItem(c) ==
  /\ addCall[c].at = "orphan"
  /\ InsertCallItem(c, NoPart)

\* known reference: the line is inserted with the part of the reference
insertLinkedItem(c) ==
  /\ addCall[c].at = "insert"
  /\ InsertCallItem(c, addCall[c].part)

\* the insert into order_items answers with an error
insertItemErr(c) ==
  /\ addCall[c].at \in {"orphan", "insert"}
  /\ addCall' = [addCall EXCEPT ![c] = NoCall]
  /\ UNCHANGED <<dbVars, viewVars, callVars, toasts, loading, pending_refs, supplier_part_refs,
                 newOrderSupplierId>>

\* rows of pending_refs not deleted yet
LivePending == {i \in 1..Len(pending_refs) : pending_refs[i].live}

\* a filter of the re-link update without its test of part_id
OrphanAnyPart(item, row) ==
  /\ item.supplier_ref = row.supplier_ref
  /\ orders[item.order_id].supplier_id = row.supplier_id

\* the filter of the re-link update
Orphan(item, row) ==
  /\ item.part_id = NoPart
  /\ item.supplier_ref = row.supplier_ref
  /\ orders[item.order_id].supplier_id = row.supplier_id

\* the rows items of order_items after the re-link update
RelinkItems(items, row, partId) ==
  [n \in 1..Len(items) |->
     IF Orphan(items[n], row)
     THEN [items[n] EXCEPT !.part_id = partId] ELSE items[n]]

\* order_items after the re-link update
Relinked(row, partId) == RelinkItems(order_items, row, partId)

SupplierPartRef(row, partId) ==
  [part_id |-> partId, supplier_id |-> row.supplier_id,
   supplier_ref |-> row.supplier_ref]

\* parts of the select of the queue, reference resolution
RefParts == {"p1", "p2"}

\* approvePendingRef with its re-link, every request answering; the part is
\* chosen among parts
approvePendingRefOf(c, parts) ==
  /\ pc[c] = "idle"
  /\ Len(supplier_part_refs) < MaxSupplierRefs
  /\ \E i \in LivePending, partId \in parts :
       /\ supplier_part_refs' =
            Append(supplier_part_refs, SupplierPartRef(pending_refs[i], partId))
       /\ pending_refs' = [pending_refs EXCEPT ![i].live = FALSE]
       /\ order_items' = Relinked(pending_refs[i], partId)
  /\ UNCHANGED <<orders, receipts, receipt_items, inventory>>
  /\ IF activeOrderId[c] # NoId
     THEN LoadOrderItems(c, activeOrderId[c])
     ELSE UNCHANGED <<orderItems, receivedByItem>>
  /\ UNCHANGED <<activeOrderId, ordersView, inventoryView, receiveSite, callVars, toasts, loading,
                 newOrderSupplierId, addCall>>

approvePendingRef(c) == approvePendingRefOf(c, Parts)

\* the delete of the pending row answers with an error: the handler returns
approvePendingRefDelErr(c) ==
  /\ pc[c] = "idle"
  /\ Len(supplier_part_refs) < MaxSupplierRefs
  /\ \E i \in LivePending, partId \in Parts :
       supplier_part_refs' =
         Append(supplier_part_refs, SupplierPartRef(pending_refs[i], partId))
  /\ UNCHANGED <<dbVars, viewVars, callVars, toasts, loading, pending_refs, newOrderSupplierId,
                 addCall>>

\* approvePendingRef without a re-link (and the handler with the re-link when
\* its select on orders or its update answers with an error)
approvePendingRefNoLink(c) ==
  /\ pc[c] = "idle"
  /\ Len(supplier_part_refs) < MaxSupplierRefs
  /\ \E i \in LivePending, partId \in Parts :
       /\ supplier_part_refs' =
            Append(supplier_part_refs, SupplierPartRef(pending_refs[i], partId))
       /\ pending_refs' = [pending_refs EXCEPT ![i].live = FALSE]
  /\ UNCHANGED <<dbVars, viewVars, callVars, toasts, loading, newOrderSupplierId, addCall>>

\* a delete that is not filtered by the id of the row
rejectPendingRefAll(c) ==
  /\ pc[c] = "idle"
  /\ LivePending # {}
  /\ pending_refs' = [i \in 1..Len(pending_refs) |->
                        [pending_refs[i] EXCEPT !.live = FALSE]]
  /\ UNCHANGED <<dbVars, viewVars, callVars, toasts, loading, supplier_part_refs,
                 newOrderSupplierId, addCall>>

\* rejectPendingRef(id)
rejectPendingRef(c) ==
  /\ pc[c] = "idle"
  /\ \E i \in LivePending :
       pending_refs' = [pending_refs EXCEPT ![i].live = FALSE]
  /\ UNCHANGED <<dbVars, viewVars, callVars, toasts, loading, supplier_part_refs,
                 newOrderSupplierId, addCall>>

\* addSupplierRef of the references tab: a plain insert
addSupplierRef(c) ==
  /\ pc[c] = "idle"
  /\ Len(supplier_part_refs) < MaxSupplierRefs
  /\ \E selectedPartId \in Parts, selectedSupplierId \in RefSuppliers,
        supplierRef \in RefTexts :
       /\ Trim(supplierRef) # ""
       /\ supplier_part_refs' = Append(supplier_part_refs,
            [part_id |-> selectedPartId, supplier_id |-> selectedSupplierId,
             supplier_ref |-> Trim(supplierRef)])
  /\ UNCHANGED <<dbVars, viewVars, callVars, toasts, loading, pending_refs, newOrderSupplierId,
                 addCall>>

\* ---- specifications ----

Handlers(c, cap) ==
  \/ loadSession(c)
  \/ createOrder(c)
  \/ openOrder(c)
  \/ addOrderItem(c, cap)
  \/ markOrderAsOrdered(c)
  \/ setOrderStatus(c)

ReceiptSteps(c) ==
  \/ insertReceipt(c)
  \/ insertReceiptItem(c)
  \/ upsertInventory(c)
  \/ upsertInventoryErr(c)
  \/ selectInventory(c)
  \/ writeInventory(c)
  \/ reloadAll(c)
  \/ updateStatus(c)

ReceiptErrors(c) ==
  \/ insertReceiptErr(c)
  \/ insertReceiptItemErr(c)
  \/ insertStockMoveErr(c)
  \/ selectInventoryErr(c)
  \/ writeInventoryErr(c)
  \/ updateStatusErr(c)

\* two sessions on the same store; every request may fail
Next ==
  \E c \in Clients :
    \/ Handlers(c, MaxSharedItems)
    \/ startReceipt(c)
    \/ ReceiptSteps(c)
    \/ writeInventoryConflict(c)
    \/ ReceiptErrors(c)
Spec == Init /\ [][Next]_vars

\* one session, orders of several lines; every request may fail
NextLines ==
  \E c \in {"c1"} :
    \/ Handlers(c, MaxItems)
    \/ startReceipt(c)
    \/ ReceiptSteps(c)
    \/ ReceiptErrors(c)
SpecLines == Init /\ [][NextLines]_vars

\* a call is submitted only when no other call is running
startReceiptSeq(c) ==
  /\ \A d \in Clients : pc[d] = "idle"
  /\ startReceipt(c)

\* two sessions, the calls run one after another and no request fails (except
\* an upsert the store does not accept)
NextSeq ==
  \E c \in Clients :
    \/ Handlers(c, MaxSharedItems)
    \/ startReceiptSeq(c)
    \/ ReceiptSteps(c)
SpecSeq == Init /\ [][NextSeq]_vars

\* one session, orders of two suppliers, lines added by part or by supplier
\* reference, and the queue of references to resolve
NextRefs ==
  \E c \in {"c1"} :
    \/ createOrderUpTo(c, MaxRefOrders, RefSuppliers)
    \/ selectSupplier(c)
    \/ addOrderItemWithPart(c, MaxItems)
    \/ findSupplierRef(c, MaxItems)
    \/ createPendingRef(c)
    \/ createPendingRefErr(c)
    \/ insertOrphanItem(c)
    \/ insertLinkedItem(c)
    \/ insertItemErr(c)
    \/ approvePendingRef(c)
    \/ approvePendingRefDelErr(c)
    \/ approvePendingRefNoLink(c)
    \/ rejectPendingRef(c)
SpecRefs == Init /\ [][NextRefs]_vars

\* one session, one order whose line cites an unknown supplier reference, and
\* its reception; every request of createReceiptWithItems may fail
NextOrphan ==
  \E c \in {"c1"} :
    \/ createOrder(c)
    \/ selectSupplier(c)
    \/ findSupplierRef(c, MaxSharedItems)
    \/ createPendingRef(c)
    \/ insertOrphanItem(c)
    \/ startReceipt(c)
    \/ ReceiptSteps(c)
    \/ ReceiptErrors(c)
SpecOrphan == Init /\ [][NextOrphan]_vars

\* two sessions on one order: one adds lines by part, the other adds lines
\* by part or by supplier reference and resolves the references
NextAdd ==
  \/ \E c \in {"c1"} :
       \/ createOrder(c)
       \/ addOrderItem(c, MaxItems)
  \/ \E c \in {"c2"} :
       \/ loadSession(c)
       \/ openOrder(c)
       \/ selectSupplier(c)
       \/ addOrderItemRefused(c)
       \/ dismiss(c)
       \/ addOrderItemWithPart(c, MaxItems)
       \/ findSupplierRef(c, MaxItems)
       \/ createPendingRef(c)
       \/ createPendingRefErr(c)
       \/ insertOrphanItem(c)
       \/ insertLinkedItem(c)
       \/ insertItemErr(c)
       \/ approvePendingRef(c)
SpecAdd == Init /\ [][NextAdd]_vars

\* one session, one order: lines added by part or by supplier reference, the
\* references approved with any of two parts
NextRelink ==
  \E c \in {"c1"} :
    \/ createOrder(c)
    \/ selectSupplier(c)
    \/ addOrderItemWithPart(c, MaxItems)
    \/ findSupplierRef(c, MaxItems)
    \/ createPendingRef(c)
    \/ insertOrphanItem(c)
    \/ insertLinkedItem(c)
    \/ approvePendingRefOf(c, RefParts)
SpecRelink == Init /\ [][NextRelink]_vars

\* one session: lines added by supplier reference, references entered in the
\* references tab, pending rows rejected (none is approved)
NextReject ==
  \E c \in {"c1"} :
    \/ createOrderUpTo(c, MaxRefOrders, RefSuppliers)
    \/ selectSupplier(c)
    \/ addSupplierRef(c)
    \/ findSupplierRef(c, MaxItems)
    \/ createPendingRef(c)
    \/ insertOrphanItem(c)
    \/ insertLinkedItem(c)
    \/ rejectPendingRef(c)
SpecReject == Init /\ [][NextReject]_vars

\* one session that has no site assigned: it types the receive site
NextSite ==
  \E c \in {"c2"} :
    \/ Handlers(c, MaxSharedItems)
    \/ setReceiveSite(c)
    \/ startReceipt(c)
    \/ ReceiptSteps(c)
SpecSite == Init /\ [][NextSite]_vars

\* one session: lines added by supplier reference, every insert may fail,
\* and no pending row is approved or rejected
NextAddRef ==
  \E c \in {"c1"} :
    \/ createOrder(c)
    \/ selectSupplier(c)
    \/ addSupplierRef(c)
    \/ findSupplierRef(c, MaxItems)
    \/ createPendingRef(c)
    \/ createPendingRefErr(c)
    \/ insertOrphanItem(c)
    \/ insertLinkedItem(c)
    \/ insertItemErr(c)
SpecAddRef == Init /\ [][NextAddRef]_vars

\* one session, no request fails: receipts and edits of the location of
\* inventory rows
NextLoc ==
  \E c \in {"c1"} :
    \/ Handlers(c, MaxSharedItems)
    \/ startReceipt(c)
    \/ ReceiptSteps(c)
    \/ updateInventoryLocation(c)
SpecLoc == Init /\ [][NextLoc]_vars

\* one session, two orders: the orders are opened from the list and their
\* lines arrive later; no request fails
NextOpen ==
  \E c \in {"c1"} :
    \/ createOrderUpTo(c, MaxRefOrders, Suppliers)
    \/ addOrderItem(c, MaxSharedItems)
    \/ onOpen(c)
    \/ loadOrderItemsDone(c)
    \/ startReceipt(c)
    \/ ReceiptSteps(c)
SpecOpen == Init /\ [][NextOpen]_vars

\* ---- the claims ----

\* quantity on hand of a bucket, 0 when the table has no row for it
InvQty(key) == IF key \in DOMAIN inventory THEN inventory[key].qty ELSE 0

\* receipt_items joined through receipts and order_items to one bucket
BucketItems(key) ==
  {ri \in receipt_items :
     /\ receipts[ri.receipt_id].site = key[1]
     /\ order_items[ri.order_item_id].part_id = key[2]
     /\ ri.condition = key[3]}

\* C1: for calls of createReceiptWithItems issued one after another, the
\* quantity received on every order line never exceeds the quantity ordered.
C1_Conservation ==
  \A n \in 1..Len(order_items) : ReceivedOf(n) <= order_items[n].qty

\* quantity of line i accepted by the running call of c
Accepted(c, i) ==
  SumSeqQty(SelectSeq(entries[c], LAMBDA e : e.oi.id = i))

\* C2: two calls running at the same time never both accept quantities of a
\* line that together exceed what remains of it: with what the other
\* receipts stored, the two accepted quantities stay within the line's quantity.
C2_NoJointOverReceipt ==
  \A a, b \in Clients :
    (a # b /\ pc[a] # "idle" /\ pc[b] # "idle") =>
      \A n \in 1..Len(order_items) :
        Accepted(a, n) + Accepted(b, n)
          + SumQty({ri \in receipt_items :
                      /\ ri.order_item_id = n
                      /\ ri.receipt_id \notin {receiptId[a], receiptId[b]}})
          <= order_items[n].qty

\* no order line has received more than its quantity
WithinOrdered ==
  \A n \in 1..Len(order_items) : ReceivedOf(n) <= order_items[n].qty

\* C3: when every call so far completed and no line is over-received, the
\* quantity on hand of every (site, part, condition) bucket is the sum of the
\* receipt items of that bucket.
C3_Additivity ==
  ((\A c \in Clients : pc[c] = "idle") /\ WithinOrdered) =>
    \A key \in Sites \X Parts \X Conds : InvQty(key) = SumQty(BucketItems(key))

\* C4: a call that ends in its catch block leaves neither its receipt nor any
\* of its receipt items in the store.
C4_AllOrNothing ==
  [][\A c \in Clients :
       (pc[c] \in {"receipt", "ri", "inv", "invGet", "invPut"} /\ pc'[c] = "idle") =>
         /\ receiptId[c] \notin 1..Len(receipts')
         /\ \A ri \in receipt_items' : ri.receipt_id # receiptId[c]]_vars

\* C5: a batch with a line above its remaining quantity is rejected as a
\* whole: such a call never inserts a receipt.
C5_WholeBatchRejected ==
  \A c \in Clients : overLine[c] => receiptId[c] = NoId

\* calls that wrote the inventory row of their line and are not over yet
Written == {c \in Clients : pc[c] \in {"reload", "status"}}

\* C6: when two calls running at the same time have both written the row of
\* the same (site, part, condition) bucket, and no line is over-received, the
\* row holds the quantity the earlier receipts brought plus the two received
\* quantities.
C6_NoLostUpdate ==
  \A a, b \in Written :
    (a # b /\ invKey(a) = invKey(b) /\ WithinOrdered) =>
      InvQty(invKey(a)) =
        SumQty({ri \in BucketItems(invKey(a)) :
                  ri.receipt_id \notin {receiptId[a], receiptId[b]}})
          + SumSeqQty(entries[a]) + SumSeqQty(entries[b])

\* C7: a receipt is inserted only for an order whose status is ordered or
\* partially_received.
C7_OnlyReceivable ==
  [][Len(receipts') > Len(receipts) =>
       orders[receipts'[Len(receipts')].order_id].status
         \in {"ordered", "partially_received"}]_vars

\* remaining quantity of the line n, from the tables rows ris
LineRemaining(n, ris) == Max(order_items[n].qty - ReceivedIn(ris, n), 0)

\* lines of the order o
LinesOf(o) == {n \in 1..Len(order_items) : order_items[n].order_id = o}

\* C8: when a call completes, the status of its order is received if no line
\* has a remaining quantity, partially_received if something was received and
\* a line still has a remaining quantity, and unchanged if nothing was received.
C8_StatusDerivation ==
  [][\A c \in Clients :
       (pc[c] = "status" /\ pc'[c] = "idle") =>
         LET o == activeOrderId[c]
         IN IF \A n \in LinesOf(o) : LineRemaining(n, receipt_items') = 0
            THEN orders'[o].status = "received"
            ELSE IF \E n \in LinesOf(o) : ReceivedIn(receipt_items', n) > 0
                 THEN orders'[o].status = "partially_received"
                 ELSE orders'[o].status = orders[o].status]_vars

\* C9: the status of an order that is received or cancelled never changes.
C9_TerminalStatus ==
  [][\A o \in 1..Len(orders) :
       orders[o].status \in {"received", "cancelled"} =>
         orders'[o].status = orders[o].status]_vars

AllowedMoves ==
  {<<"draft", "ordered">>, <<"ordered", "partially_received">>,
   <<"partially_received", "received">>, <<"draft", "cancelled">>,
   <<"ordered", "cancelled">>, <<"partially_received", "cancelled">>}

\* C10: every change of the status of an order is draft to ordered, ordered to
\* partially_received, partially_received to received, or a move to cancelled
\* from draft, ordered or partially_received.
C10_StateMachine ==
  [][\A o \in 1..Len(orders) :
       orders'[o].status # orders[o].status =>
         <<orders[o].status, orders'[o].status>> \in AllowedMoves]_vars

\* position of a status in draft < ordered < partially_received < received
StatusRank(status) ==
  CASE status = "draft" -> 0
    [] status = "ordered" -> 1
    [] status = "partially_received" -> 2
    [] status = "received" -> 3
    [] OTHER -> 4

\* C11: the status of an order never moves backwards in draft < ordered <
\* partially_received < received (a move to cancelled apart).
C11_MonotoneStatus ==
  [][\A o \in 1..Len(orders) :
       orders'[o].status # "cancelled" =>
         StatusRank(orders'[o].status) >= StatusRank(orders[o].status)]_vars

\* C12: an order line is inserted only while the status of its order is draft
\* in the store, whatever the session that adds it was shown.
C12_AddOnlyDraft ==
  [][Len(order_items') > Len(order_items) =>
       orders[order_items'[Len(order_items')].order_id].status = "draft"]_vars

\* C13: no order without a line has the status ordered.
C13_NoEmptyOrdered ==
  \A o \in 1..Len(orders) :
    orders[o].status = "ordered" => Len(ItemsOfOrder(o)) > 0

\* C16: no receipt item and no inventory row written by a receipt has a null
\* location.
C16_LocationRequired ==
  /\ \A ri \in receipt_items : ri.location # NoLoc
  /\ \A key \in DOMAIN inventory : inventory[key].location # NoLoc

\* the locations the inventory rows of a (site, part) hold, any condition
StoreLocs(site, part) ==
  {inventory[key].location :
     key \in {x \in DOMAIN inventory :
                x[1] = site /\ x[2] = part /\ inventory[x].location # NoLoc}}

\* C15: for calls running one after another, once an inventory row of a
\* (site, part) holds a location, every receipt item inserted for that
\* (site, part) and every inventory row written for it carries a location the
\* store already holds for it (lines received within their quantity).
C15_StickyLocation ==
  [][WithinOrdered' =>
     /\ \A ri \in receipt_items' \ receipt_items :
          LET known == StoreLocs(receipts[ri.receipt_id].site,
                                 order_items[ri.order_item_id].part_id)
          IN known # {} => ri.location \in known
     /\ \A key \in DOMAIN inventory' :
          (StoreLocs(key[1], key[2]) # {}
             /\ (key \notin DOMAIN inventory \/ inventory'[key] # inventory[key]))
            => inventory'[key].location \in StoreLocs(key[1], key[2])]_vars

\* C14: a call of addOrderItem whose quantity is not a number greater than 0
\* raises its toast and leaves order_items and pending_refs as they are, and
\* starts no request; so every line, and every call that goes on to raise a
\* pending reference, has a quantity greater than 0.
C14_InvalidQuantity ==
  /\ [](/\ \A n \in 1..Len(order_items) : order_items[n].qty > 0
        /\ \A c \in Adding : addCall[c].qty > 0)
  /\ [][\A c \in Clients :
          (QtyToast \in toasts'[c] /\ QtyToast \notin toasts[c])
            => /\ order_items' = order_items
               /\ pending_refs' = pending_refs
               /\ addCall' = addCall]_vars

\* a call was refused for its quantity while the order has a line without a
\* part and its pending reference
C14_Witness ==
  /\ \E c \in Clients : QtyToast \in toasts[c]
  /\ LivePending # {}
  /\ \E n \in 1..Len(order_items) : order_items[n].part_id = NoPart

\* C17: no receipt item is on an order line whose part_id is null, and no
\* inventory row has a null part_id.
C17_NoReceiptOfOrphan ==
  /\ \A ri \in receipt_items : order_items[ri.order_item_id].part_id # NoPart
  /\ \A key \in DOMAIN inventory : key[2] # NoPart

\* unresolved pending references of the supplier and reference of a line
PendingOf(item) ==
  {i \in LivePending :
     /\ pending_refs[i].supplier_id = orders[item.order_id].supplier_id
     /\ pending_refs[i].supplier_ref = item.supplier_ref}

\* C18: every order line whose part_id is null has exactly one unresolved
\* pending reference of the supplier of its order and of its supplier_ref.
C18_OrphanHasPending ==
  \A n \in 1..Len(order_items) :
    order_items[n].part_id = NoPart =>
      Cardinality(PendingOf(order_items[n])) = 1

\* C19: no two unresolved pending references have the same supplier and
\* supplier_ref.
C19_OnePendingPerRef ==
  \A i, j \in LivePending :
    (pending_refs[i].supplier_id = pending_refs[j].supplier_id
       /\ pending_refs[i].supplier_ref = pending_refs[j].supplier_ref) => i = j

\* C20: a step that approves a pending reference (it inserts the supplier
\* reference and deletes the pending row) sets the part of the reference on
\* every line with a null part_id, that supplier_ref and an order of that
\* supplier, and leaves every other line as it was.
C20_Relink ==
  [][\A i \in LivePending :
       (Len(supplier_part_refs') > Len(supplier_part_refs)
          /\ ~pending_refs'[i].live) =>
         /\ Len(order_items') = Len(order_items)
         /\ \A n \in 1..Len(order_items) :
              IF Orphan(order_items[n], pending_refs[i])
              THEN order_items'[n] =
                     [order_items[n] EXCEPT
                        !.part_id = supplier_part_refs'[Len(supplier_part_refs')].part_id]
              ELSE order_items'[n] = order_items[n]]_vars

\* rows of supplier_part_refs of the pair of one pending row
RefsOf(row) == RefsFound(row.supplier_id, row.supplier_ref)

\* C21: approvePendingRef is all-or-nothing: no supplier_part_refs row exists
\* for a pending row that is still there, and no pending row that was
\* approved (it is deleted and its reference exists) has a matching line
\* left with part_id null.
C21_ApproveAtomic ==
  \A i \in 1..Len(pending_refs) :
    RefsOf(pending_refs[i]) # {} =>
      /\ ~pending_refs[i].live
      /\ \A n \in 1..Len(order_items) : ~Orphan(order_items[n], pending_refs[i])

\* C22: the part_id of an order line changes only from null to a part, only in
\* a step of approvePendingRef (a supplier_part_refs row is inserted), and no
\* line is removed; a line that has a part keeps it, also when another
\* pending row of its supplier and reference is approved with another part.
C22_PartSetOnce ==
  [][/\ Len(order_items') >= Len(order_items)
     /\ \A n \in 1..Len(order_items) :
          order_items'[n].part_id # order_items[n].part_id =>
            /\ order_items[n].part_id = NoPart
            /\ order_items'[n].part_id \in RefParts
            /\ Len(supplier_part_refs') > Len(supplier_part_refs)]_vars

\* two pending rows of one supplier and reference were approved, the first
\* with p1 and the second with p2, and a line of that reference has part p1
C22_Witness ==
  /\ LivePending = {}
  /\ Len(supplier_part_refs) = 2
  /\ supplier_part_refs[1].part_id = "p1"
  /\ supplier_part_refs[2] = [supplier_part_refs[1] EXCEPT !.part_id = "p2"]
  /\ \E n \in 1..Len(order_items) :
       /\ order_items[n].part_id = "p1"
       /\ Trim(order_items[n].supplier_ref) = supplier_part_refs[1].supplier_ref
       /\ orders[order_items[n].order_id].supplier_id = supplier_part_refs[1].supplier_id

\* C23: the re-link update of approvePendingRef is idempotent: applied a
\* second time with the same pending row and part it changes no line, because
\* after the first application no line passes its filter any more.
C23_RelinkIdempotent ==
  \A i \in 1..Len(pending_refs), partId \in RefParts :
    LET row == pending_refs[i]
        once == RelinkItems(order_items, row, partId)
    IN /\ RelinkItems(once, row, partId) = once
       /\ \A n \in 1..Len(once) : ~Orphan(once[n], row)

\* a pending row whose re-link has two lines to give a part to, next to a
\* pending row already approved
C23_Witness ==
  /\ \E i \in LivePending :
       Cardinality({n \in 1..Len(order_items) :
                      Orphan(order_items[n], pending_refs[i])}) = 2
  /\ \E j \in 1..Len(pending_refs) : ~pending_refs[j].live

\* C24: a step that deletes a pending row (in SpecReject only rejectPendingRef
\* does) deletes that row only, inserts no supplier_part_refs row and leaves
\* every order line as it is, so the matching lines keep part_id null.
C24_RejectFrame ==
  [][\A i \in LivePending :
       ~pending_refs'[i].live =>
         /\ supplier_part_refs' = supplier_part_refs
         /\ order_items' = order_items
         /\ \A j \in 1..Len(pending_refs) \ {i} : pending_refs'[j] = pending_refs[j]
         /\ \A n \in 1..Len(order_items) :
              Orphan(order_items[n], pending_refs[i]) =>
                order_items'[n].part_id = NoPart]_vars

\* a pending row was rejected, its line has no part, and another pending row
\* and a supplier_part_refs row are in the store
C24_Witness ==
  /\ \E i \in 1..Len(pending_refs), n \in 1..Len(order_items) :
       ~pending_refs[i].live /\ Orphan(order_items[n], pending_refs[i])
  /\ LivePending # {}
  /\ Len(supplier_part_refs) > 0

\* C25: when a call of addOrderItem by supplier reference inserts its line:
\* if supplier_part_refs has a row for the supplier of the order and the
\* reference, the line has the part of such a row and the call raised no
\* pending row; otherwise the line has part_id null and a pending row of that
\* supplier and reference is in the queue.
C25_AddByReference ==
  [][\A c \in Adding :
       (addCall'[c] = NoCall /\ Len(order_items') > Len(order_items)) =>
         LET item == order_items'[Len(order_items')]
             sup == orders[item.order_id].supplier_id
             found == RefsFound(sup, Trim(item.supplier_ref))
         IN IF found # {}
            THEN /\ \E n \in found : supplier_part_refs[n].part_id = item.part_id
                 /\ addCall[c].at = "insert"
            ELSE /\ item.part_id = NoPart
                 /\ \E i \in LivePending :
                      /\ pending_refs[i].supplier_id = sup
                      /\ pending_refs[i].supplier_ref = Trim(item.supplier_ref)]_vars

\* C26: supplier_part_refs has at most one row per supplier and reference,
\* whether the rows come from addSupplierRef or from approvePendingRef.
C26_OneRefPerPair ==
  \A m, n \in 1..Len(supplier_part_refs) :
    (/\ supplier_part_refs[m].supplier_id = supplier_part_refs[n].supplier_id
     /\ supplier_part_refs[m].supplier_ref = supplier_part_refs[n].supplier_ref)
      => m = n

\* the calls whose step writes the inventory row of their line
Writing(c) == pc[c] \in {"inv", "invPut"}

\* C27: an inventory row is never deleted and its quantity never decreases;
\* the write of a receipt line leaves the quantity of its bucket larger by
\* exactly the quantity received.
C27_NeverDecreases ==
  [][/\ \A key \in DOMAIN inventory :
          /\ key \in DOMAIN inventory'
          /\ inventory'[key].qty >= inventory[key].qty
     /\ \A c \in Clients :
          (Writing(c) /\ inventory' # inventory) =>
            /\ invKey(c) \in DOMAIN inventory'
            /\ inventory'[invKey(c)].qty = InvQty(invKey(c)) + entry(c).qty]_vars

\* C30: a receipt never replaces or clears a location stored in an inventory
\* row: a row that has a location keeps it.
C30_LocationWriteOnce ==
  [][\A key \in DOMAIN inventory :
       inventory[key].location # NoLoc =>
         /\ key \in DOMAIN inventory'
         /\ inventory'[key].location = inventory[key].location]_vars

\* C28: every receipt and every inventory row is for a site of the sites
\* table.
C28_KnownSite ==
  /\ \A r \in 1..Len(receipts) : receipts[r].site \in Sites
  /\ \A key \in DOMAIN inventory : key[1] \in Sites

\* the lines a session shows
Shown(c) == {orderItems[c][n] : n \in 1..Len(orderItems[c])}

C37_ReceiptHasItems ==
  \A r \in 1..Len(receipts) :
    \/ \E ri \in receipt_items : ri.receipt_id = r
    \/ \E c \in Clients : receiptId[c] = r /\ pc[c] = "ri"

\* C34: the supplier of the lookup in supplier_part_refs made by addOrderItem,
\* and of the pending row it raises, is the supplier of the order the line is
\* added to.
C34_SupplierOfOrder ==
  [][\A c \in Clients :
       /\ (addCall[c] = NoCall /\ addCall'[c] # NoCall) =>
            addCall'[c].sup = orders[addCall'[c].order_id].supplier_id
       /\ (c \in Adding /\ Len(pending_refs') > Len(pending_refs)) =>
            pending_refs'[Len(pending_refs')].supplier_id
              = orders[addCall[c].order_id].supplier_id]_vars

\* C33: when approvePendingRef completes with its re-link, every line without
\* a part that was added for the supplier and the reference of the pending
\* row, whatever spaces were typed around the reference, has a part.
C33_RelinkAfterTrim ==
  [][\A i \in LivePending :
       (Len(supplier_part_refs') > Len(supplier_part_refs) /\ ~pending_refs'[i].live) =>
         \A n \in 1..Len(order_items) :
           (/\ order_items[n].part_id = NoPart
            /\ Trim(order_items[n].supplier_ref) = pending_refs[i].supplier_ref
            /\ orders[order_items[n].order_id].supplier_id = pending_refs[i].supplier_id)
             => order_items'[n].part_id # NoPart]_vars

\* order lines without a part
Orphans == {n \in 1..Len(order_items) : order_items[n].part_id = NoPart}

\* C35: addOrderItem with an unknown reference is all-or-nothing: when no
\* call is running (and no pending row was approved or rejected), there are
\* as many pending rows as lines without a part.
C35_AddAllOrNothing ==
  Adding = {} => Len(pending_refs) = Cardinality(Orphans)

\* C32: when no call is running, an order that is received has no remaining
\* quantity on any line, and an order that is partially_received has
\* something received and a line with a remaining quantity.
C32_StatusMatchesLines ==
  (\A c \in Clients : pc[c] = "idle") =>
    \A o \in 1..Len(orders) :
      /\ orders[o].status = "received" =>
           \A n \in LinesOf(o) : LineRemaining(n, receipt_items) = 0
      /\ orders[o].status = "partially_received" =>
           /\ \E n \in LinesOf(o) : ReceivedOf(n) > 0
           /\ \E n \in LinesOf(o) : LineRemaining(n, receipt_items) > 0

\* C36: the inventory rows of one site and part that have a location have the
\* same location, whatever their condition.
C36_OneLocationPerPart ==
  \A a, b \in DOMAIN inventory :
    (/\ a[1] = b[1]
     /\ a[2] = b[2]
     /\ inventory[a].location # NoLoc
     /\ inventory[b].location # NoLoc)
      => inventory[a].location = inventory[b].location

\* C31: the order line of every receipt item is a line of the order of its
\* receipt.
C31_ItemOfReceiptOrder ==
  \A ri \in receipt_items :
    order_items[ri.order_item_id].order_id = receipts[ri.receipt_id].order_id

====
